---- MODULE Spec2Model ----
(***************************************************************************)
(* Model of src/website/streamlit_app.py: the filtering-and-scoring pass   *)
(* of main(), the widgets' session state and the reset flag.               *)
(*                                                                         *)
(* Representation.                                                         *)
(*   - A cell is <<>> when the value is missing (NaN / NaT / None) and     *)
(*     <<v>> when it is present.                                           *)
(*   - A number is an exact fraction [n |-> numerator, d |-> denominator], *)
(*     d > 0, in lowest terms; pandas computes in floating point, the      *)
(*     model in exact arithmetic.                                          *)
(*   - A timestamp is a number of seconds, a date a number of days.        *)
(*   - A column (pd.Series) is a sequence of cells, a mask a sequence of   *)
(*     booleans, a table (pd.DataFrame) a sequence of row records.         *)
(*   - A session_state key that is absent is <<>>, a stored value v <<v>>, *)
(*     for the keys whose absence the code can observe.                    *)
(***************************************************************************)
EXTENDS Integers, Sequences, FiniteSets, TLC

VARIABLES
    df,                 \* the table handed to main(): create_vis_table's result
    reset_filters,      \* st.session_state["reset_filters"] (absent reads as FALSE)
    slider_state,       \* st.session_state["slider_<col>"]
    multiselect_state,  \* st.session_state["multiselect_<col>"]
    exclude_nan_state,  \* st.session_state["exclude_nan_<col>"] (absent reads as FALSE)
    scoring_state,      \* st.session_state["scoring_<col>"], in tenths (absent reads as 0.5)
    scoring_method,     \* st.session_state["scoring_method"] (absent reads as "min-max")
    search_box,         \* st.session_state["search_box"], a sequence of characters
    reset_button,       \* the reset button was pressed: it reads True in the next run
    pc,                 \* "run": a script run is due after a user interaction or at
                        \* page load; "rerun": st.rerun() asked for a run; "idle":
                        \* the run is over, waiting for the user
    reset_mode,         \* main's local reset_mode in the last run
    df_filtered,        \* main's local df_filtered at the end of the last run
    scored,             \* main's df_filtered right after line 624, before the score filter
    removed_by,         \* per url: the step of the last run that removed the row, <<>> if kept
    events,             \* number of user interactions so far
    resets,             \* number of reset(True) calls so far
    reset_passes        \* number of runs of main() that ran in reset mode

vars == <<df, reset_filters, slider_state, multiselect_state, exclude_nan_state,
          scoring_state, scoring_method, search_box, reset_button, pc,
          reset_mode, df_filtered, scored, removed_by, events, resets, reset_passes>>

\* Bound on the number of user interactions in one behaviour.
MaxEvents == 2

----------------------------------------------------------------------------
(* Numbers: exact fractions.                                               *)

RECURSIVE GCD(_, _)
GCD(a, b) == IF b = 0 THEN a ELSE GCD(b, a % b)

Abs(k) == IF k < 0 THEN -k ELSE k

Frac(n, d) ==
    LET g == GCD(Abs(n), d)
    IN  [n |-> n \div g, d |-> d \div g]

Num(k) == [n |-> k, d |-> 1]

Le(a, b) == a.n * b.d <= b.n * a.d
Plus(a, b) == Frac(a.n * b.d + b.n * a.d, a.d * b.d)
Minus(a, b) == Frac(a.n * b.d - b.n * a.d, a.d * b.d)
Times(a, b) == Frac(a.n * b.n, a.d * b.d)
\* a / b for b # 0
Div(a, b) ==
    IF b.n > 0 THEN Frac(a.n * b.d, a.d * b.n) ELSE Frac(-(a.n * b.d), a.d * (-b.n))

----------------------------------------------------------------------------
(* Cells, columns and masks.                                               *)

NaN == <<>>
IsNa(x) == x = <<>>
P(v) == <<v>>
N(k) == <<Num(k)>>

Range(s) == {s[i] : i \in DOMAIN s}

\* df[col]: the column of a table as a sequence of cells
Column(table, col) == [i \in DOMAIN table |-> table[i][col]]

\* df[mask]: boolean indexing keeps the rows whose mask entry is True, in order
RECURSIVE BoolIndex(_, _)
BoolIndex(table, mask) ==
    IF table = <<>> THEN <<>>
    ELSE LET rest == BoolIndex(Tail(table), Tail(mask))
         IN  IF Head(mask) THEN <<Head(table)>> \o rest ELSE rest

\* col.min() / col.max() of a numeric column: missing values are skipped
Present(col) == {col[i][1] : i \in {j \in DOMAIN col : ~IsNa(col[j])}}
NumMin(col) == CHOOSE m \in Present(col) : \A x \in Present(col) : Le(m, x)
NumMax(col) == CHOOSE m \in Present(col) : \A x \in Present(col) : Le(x, m)
TsMin(col) == CHOOSE m \in Present(col) : \A x \in Present(col) : m <= x
TsMax(col) == CHOOSE m \in Present(col) : \A x \in Present(col) : x <= m

----------------------------------------------------------------------------
(* Dates and timestamps.                                                   *)

SecondsPerDay == 24 * 3600
\* pd.Timestamp.date(): the day of a timestamp
DateOf(ts) == ts \div SecondsPerDay
\* pd.Timestamp(date): midnight of a day
Timestamp(date) == date * SecondsPerDay
\* pd.Timedelta(hours=23, minutes=59)
EndOfDayOffset == 23 * 3600 + 59 * 60

----------------------------------------------------------------------------
(* The predicate library.                                                  *)

nan_filter(col) == [i \in DOMAIN col |-> ~IsNa(col[i])]

\* A comparison with a missing value is False.
NumGe(x, v) == ~IsNa(x) /\ Le(v, x[1])
NumLe(x, v) == ~IsNa(x) /\ Le(x[1], v)

\* numeric_range_filter() with an exclusive upper bound
numeric_range_filter_Exclusive(col, min_val, max_val) ==
    [i \in DOMAIN col |->
        (NumGe(col[i], min_val) /\ NumLe(col[i], max_val) /\ col[i][1] # max_val)
        \/ IsNa(col[i])]

numeric_range_filter(col, min_val, max_val) ==
    [i \in DOMAIN col |->
        (NumGe(col[i], min_val) /\ NumLe(col[i], max_val)) \/ IsNa(col[i])]

date_range_filter(col, start_date, end_date) ==
    LET start_datetime == Timestamp(start_date)
        end_datetime == Timestamp(end_date) + EndOfDayOffset
    IN  [i \in DOMAIN col |->
            (  (~IsNa(col[i]) /\ col[i][1] >= start_datetime)
            /\ (~IsNa(col[i]) /\ col[i][1] <= end_datetime))
            \/ IsNa(col[i])]

categorical_filter(col, to_filter) ==
    [i \in DOMAIN col |->
        (~IsNa(col[i]) /\ col[i][1] \in to_filter) \/ IsNa(col[i])]

\* list_filter() without .fillna(True): a missing value matches nothing
list_filter_DropsMissing(col, to_filter) ==
    [i \in DOMAIN col |->
        ~IsNa(col[i]) /\ \E t \in to_filter : t \in Range(col[i][1])]

list_filter(col, to_filter) ==
    [i \in DOMAIN col |->
        IF IsNa(col[i]) THEN TRUE
        ELSE \E t \in to_filter : t \in Range(col[i][1])]

----------------------------------------------------------------------------
(* The table schema and the column classifier.                             *)

\* COLUMN_NAME_MAPPING.values(), in the order main() visits them; the model
\* keeps one datetime column, two numeric columns and the list column.
COLUMN_NAME_MAPPING == <<"Updated", "Stars", "Forks", "Category">>

\* The dtype COLUMN_DTYPES gives each column (pd.to_datetime, pd.to_numeric,
\* str.split), and the dtype of the columns create_vis_table adds.
COLUMN_DTYPES ==
    [Updated |-> "datetime64", Stars |-> "float64", Forks |-> "float64",
     Category |-> "object", Docs |-> "object", Score |-> "int64"]

\* What the non-missing values of an object column are.
ObjectValues == [Category |-> "list", Docs |-> "str"]

is_datetime_column(col) == COLUMN_DTYPES[col] = "datetime64"
is_numeric_column(col) == COLUMN_DTYPES[col] \in {"int64", "float64"}
is_categorical_column(col) == COLUMN_DTYPES[col] \in {"string", "category"}
is_list_column(table, col) ==
    \A i \in DOMAIN table :
        ~IsNa(table[i][col]) =>
            (COLUMN_DTYPES[col] = "object" /\ ObjectValues[col] = "list")

\* main(): lines 589-621, the if / elif chain as a function of the column: the
\* branch taken, "none" when no test holds (the chain has no else branch).
classify(table, col) ==
    IF is_datetime_column(col) THEN "datetime"
    ELSE IF is_numeric_column(col) THEN "numeric"
    ELSE IF is_categorical_column(col) THEN "categorical"
    ELSE IF is_list_column(table, col) THEN "list"
    ELSE "none"

\* The keys of the widgets main() creates.
SliderCols == {"Score", "Updated", "Stars", "Forks"}
MultiselectCols == {"Category"}
ToggleCols == {"Docs", "Updated", "Stars", "Forks", "Category"}
ScoreInputCols == {"Stars", "Forks"}

----------------------------------------------------------------------------
(* Normalizer and scorer.                                                  *)

\* (df - df.min()) / (df.max() - df.min()) for one column; 0/0 is NaN
MinMaxScale(col) ==
    IF Present(col) = {} THEN [i \in DOMAIN col |-> NaN]
    ELSE LET mn == NumMin(col)
             mx == NumMax(col)
         IN  [i \in DOMAIN col |->
                IF IsNa(col[i]) \/ mx = mn THEN NaN
                ELSE P(Div(Minus(col[i][1], mn), Minus(mx, mn)))]

\* df.rank(method="min"): tied values all get the lowest rank of their group
Rank_MinTies(col) ==
    [i \in DOMAIN col |->
        IF IsNa(col[i]) THEN NaN
        ELSE LET less == Cardinality({j \in DOMAIN col :
                            ~IsNa(col[j]) /\ col[j] # col[i] /\ Le(col[j][1], col[i][1])})
             IN  P(Num(less + 1))]

\* df.rank(): the average rank of each present value among the present values
Rank(col) ==
    [i \in DOMAIN col |->
        IF IsNa(col[i]) THEN NaN
        ELSE LET less == Cardinality({j \in DOMAIN col :
                            ~IsNa(col[j]) /\ col[j] # col[i] /\ Le(col[j][1], col[i][1])})
                 same == Cardinality({j \in DOMAIN col : col[j] = col[i]})
             IN  P(Frac(2 * less + same + 1, 2))]

\* df.rank() without the division by df.rank().max()
RankScale_Unscaled(col) == Rank(col)

\* df.rank() / df.rank().max() for one column
RankScale(col) ==
    LET r == Rank(col)
    IN  IF Present(r) = {} THEN r
        ELSE [i \in DOMAIN col |->
                IF IsNa(r[i]) THEN NaN ELSE P(Div(r[i][1], NumMax(r)))]

\* frame: column name -> column
normalise(frame, scaling_method) ==
    [c \in DOMAIN frame |->
        IF scaling_method = "min-max" THEN MinMaxScale(frame[c])
        ELSE RankScale(frame[c])]

\* .sum(axis=1) of row i over the columns cs: missing terms are skipped
RECURSIVE RowSum(_, _, _)
RowSum(frame, cs, i) ==
    IF cs = {} THEN Num(0)
    ELSE LET c == CHOOSE x \in cs : TRUE
             rest == RowSum(frame, cs \ {c}, i)
         IN  IF IsNa(frame[c][i]) THEN rest ELSE Plus(frame[c][i][1], rest)

\* weights: column name -> weight in tenths.
\* normalised_data.mul(scores).div(sum(scores.values())).sum(axis=1).mul(100)
WeightedScore(frame, weights, scaling_method, n) ==
    LET normalised_data == normalise(frame, scaling_method)
        total == RowSum([c \in DOMAIN weights |-> <<P(Frac(weights[c], 10))>>],
                        DOMAIN weights, 1)
        \* x * w / total; with total = 0 every weight is 0 and 0 / 0 is NaN
        term(x, w) ==
            IF IsNa(x) \/ total.n = 0 THEN NaN
            ELSE P(Div(Times(x[1], Frac(w, 10)), total))
        terms == [c \in DOMAIN frame |->
                    [i \in 1..n |-> term(normalised_data[c][i], weights[c])]]
    IN  [i \in 1..n |-> Times(RowSum(terms, DOMAIN frame, i), Num(100))]

\* add_scoring() with each number_input put back at value=0.5 in every run
add_scoring_Default(weights) == [c \in DOMAIN weights |-> 5]

\* add_scoring(): lines 229-240.  Each number_input is created with the constant
\* value=0.5 under its key, so it keeps the weight stored under that key.
add_scoring(weights) == weights

\* df[numeric_cols] as a frame
Frame(table, cols) == [c \in cols |-> Column(table, c)]

update_score_col(table, cols) ==
    LET scores == [c \in cols |-> scoring_state[c]]
    IN  WeightedScore(Frame(table, cols), scores, scoring_method, Len(table))

----------------------------------------------------------------------------
(* Widgets.  A keyed widget returns the value it is created with (its      *)
(* `value` / `default` argument), and Streamlit stores that value under    *)
(* the widget's key.                                                        *)

\* col.dtype.kind == "M"
IsDatetimeKind(col) == COLUMN_DTYPES[col] = "datetime64"

\* slider(): lines 295-298, the range the slider spans
default_range(table, col) ==
    IF IsDatetimeKind(col)
    THEN <<DateOf(TsMin(Column(table, col))), DateOf(TsMax(Column(table, col)))>>
    ELSE <<NumMin(Column(table, col)), NumMax(Column(table, col))>>

\* st.session_state.get(key, default) for a key stored as <<>> / <<v>>
SessionGet(stored, default) == IF stored = <<>> THEN default ELSE stored[1]

\* slider(): lines 299-320
slider(table, col, mode, stored) ==
    LET current_range ==
            IF mode THEN default_range(table, col)
            ELSE SessionGet(stored, default_range(table, col))
    IN  current_range

\* main(): line 609, sorted(df[col].dropna().unique().tolist()), as a set
unique_scalars(table, col) == Present(Column(table, col))

\* main(): line 618, list(set(i for j in df[col].dropna().values for i in j))
unique_items(table, col) ==
    UNION {Range(c[1]) : c \in {x \in Range(Column(table, col)) : ~IsNa(x)}}

\* multiselect(): lines 334-345
multiselect(values, mode, stored) ==
    LET current_selected == IF mode THEN values ELSE SessionGet(stored, values)
    IN  current_selected

\* col.isnull().sum()
missing_count(col) == Cardinality({i \in DOMAIN col : IsNa(col[i])})

\* header_and_missing_value_toggle(): lines 381-397
header_and_missing_value_toggle(col, mode, stored) ==
    IF missing_count(col) > 0
    THEN (IF mode THEN FALSE ELSE stored)
    ELSE FALSE

----------------------------------------------------------------------------
(* main(): the filter chain.  The accumulator holds df_filtered (rows),    *)
(* numeric_cols, for each url of df the step that removed its row, and     *)
(* is_source: the name df_filtered is bound to the object df itself (line  *)
(* 571) and not to a table of its own.                                     *)

Kept == <<>>

\* df_filtered[mask] handing back the object it was given when the mask keeps
\* every row, instead of a new table
ApplyMask_SameObject(acc, mask, step) ==
    [rows |-> BoolIndex(acc.rows, mask),
     numeric_cols |-> acc.numeric_cols,
     is_source |-> acc.is_source /\ \A i \in DOMAIN mask : mask[i],
     removed |-> [u \in DOMAIN acc.removed |->
                    IF \E i \in DOMAIN acc.rows : acc.rows[i].url = u /\ ~mask[i]
                    THEN step ELSE acc.removed[u]]]

\* df_filtered = df_filtered[mask], noting which rows this step removed.  Boolean
\* indexing builds a new table, whatever the mask.
ApplyMask(acc, mask, step) ==
    [rows |-> BoolIndex(acc.rows, mask),
     numeric_cols |-> acc.numeric_cols,
     is_source |-> FALSE,
     removed |-> [u \in DOMAIN acc.removed |->
                    IF \E i \in DOMAIN acc.rows : acc.rows[i].url = u /\ ~mask[i]
                    THEN step ELSE acc.removed[u]]]

\* lines 575-577 and 585-587
MissingStep(acc, col, mode) ==
    IF header_and_missing_value_toggle(Column(df, col), mode, exclude_nan_state[col])
    THEN ApplyMask(acc, nan_filter(Column(acc.rows, col)), <<"nan", col>>)
    ELSE acc

\* lines 589-621: the filter of one column, chosen by its classification
FilterStep(acc, col, mode) ==
    IF is_datetime_column(col) THEN
        LET slider_range == slider(df, col, mode, slider_state[col])
        IN  ApplyMask(acc,
                date_range_filter(Column(acc.rows, col), slider_range[1], slider_range[2]),
                <<"filter", col>>)
    ELSE IF is_numeric_column(col) THEN
        LET slider_range == slider(df, col, mode, slider_state[col])
            a == ApplyMask(acc,
                    numeric_range_filter(Column(acc.rows, col),
                                         slider_range[1], slider_range[2]),
                    <<"filter", col>>)
        IN  [a EXCEPT !.numeric_cols = Append(@, col)]
    ELSE IF is_categorical_column(col) THEN
        LET selected_values ==
                multiselect(unique_scalars(df, col), mode, multiselect_state[col])
        IN  ApplyMask(acc, categorical_filter(Column(acc.rows, col), selected_values),
                      <<"filter", col>>)
    ELSE IF is_list_column(df, col) THEN
        LET selected_values ==
                multiselect(unique_items(df, col), mode, multiselect_state[col])
        IN  ApplyMask(acc, list_filter(Column(acc.rows, col), selected_values),
                      <<"filter", col>>)
    ELSE acc

\* lines 583-621: the loop over COLUMN_NAME_MAPPING.values()
RECURSIVE FilterColumns(_, _, _)
FilterColumns(acc, cols, mode) ==
    IF cols = <<>> THEN acc
    ELSE FilterColumns(FilterStep(MissingStep(acc, Head(cols), mode), Head(cols), mode),
                       Tail(cols), mode)

\* lines 571-621
ColumnFilters(mode) ==
    FilterColumns(
        MissingStep([rows |-> df, numeric_cols |-> <<>>, is_source |-> TRUE,
                     removed |-> [u \in {df[i].url : i \in DOMAIN df} |-> Kept]],
                    "Docs", mode),
        COLUMN_NAME_MAPPING, mode)

\* line 624 scoring df[numeric_cols], the whole table, instead of df_filtered
WithScore_FullTable(acc) ==
    LET score == update_score_col(df, Range(acc.numeric_cols))
    IN  [acc EXCEPT !.rows = [i \in DOMAIN acc.rows |->
                                [acc.rows[i] EXCEPT !.Score = P(score[acc.rows[i].url])]]]

\* line 624: df_filtered["Score"] = update_score_col(df_filtered[numeric_cols]),
\* an assignment into the object df_filtered is bound to
WithScore(acc) ==
    LET score == update_score_col(acc.rows, Range(acc.numeric_cols))
    IN  [acc EXCEPT !.rows = [i \in DOMAIN acc.rows |->
                                [acc.rows[i] EXCEPT !.Score = P(score[i])]]]

\* lines 625-627, with the range the Score slider gave at line 581
ScoreFilter(acc, mode) ==
    LET score_slider_range == slider(df, "Score", mode, slider_state["Score"])
    IN  ApplyMask(acc,
            numeric_range_filter(Column(acc.rows, "Score"),
                                 score_slider_range[1], score_slider_range[2]),
            <<"filter", "Score">>)

\* line 630: df_filtered.sort_values(DEFAULT_ORDER, ascending=False).  Rows with a
\* missing value come last; the default sort is not stable, so rows with equal
\* values come in any order.
DEFAULT_ORDER == "Stars"
Before(a, b) ==
    \/ IsNa(b[DEFAULT_ORDER])
    \/ ~IsNa(a[DEFAULT_ORDER]) /\ Le(b[DEFAULT_ORDER][1], a[DEFAULT_ORDER][1])
sort_values(table) ==
    LET n == Len(table)
        perms == {f \in [1..n -> 1..n] : \A i, j \in 1..n : i # j => f[i] # f[j]}
    IN  {[i \in 1..n |-> table[f[i]]] : f \in
            {g \in perms : \A i \in 1..n : \A j \in 1..n :
                i < j => Before(table[g[i]], table[g[j]])}}

\* str.lower() and str.contains() on sequences of characters
Lower(str) == [i \in DOMAIN str |-> IF str[i] = "B" THEN "b" ELSE str[i]]
Contains(str, pat) ==
    \E k \in 0..(Len(str) - Len(pat)) : SubSeq(str, k + 1, k + Len(pat)) = pat

\* lines 636-638
SearchFilter(acc) ==
    ApplyMask(acc,
        [i \in DOMAIN acc.rows |-> Contains(Lower(acc.rows[i].name), Lower(search_box))],
        <<"search">>)

----------------------------------------------------------------------------
(* reset(): lines 348-368.  The result holds the flag as reset() leaves    *)
(* it, the value returned and whether st.rerun() ended the run.            *)

\* reset() without line 367: the flag is read and never cleared
reset_KeepsFlag(button_press, flag) ==
    IF button_press
    THEN [flag |-> TRUE, reset_mode |-> FALSE, rerun |-> TRUE]
    ELSE [flag |-> flag, reset_mode |-> flag, rerun |-> FALSE]

reset(button_press, flag) ==
    IF button_press
    THEN [flag |-> TRUE, reset_mode |-> FALSE, rerun |-> TRUE]
    ELSE [flag |-> IF flag THEN FALSE ELSE flag, reset_mode |-> flag, rerun |-> FALSE]

----------------------------------------------------------------------------
(* Source tables.  create_vis_table() leaves a random 0 / 100 in Score.    *)

Noon == 12 * 3600
LastHalfMinute == 23 * 3600 + 59 * 60 + 30

BaseTables == {
    << [url |-> 1, name |-> <<"a", "B">>, Docs |-> NaN, Score |-> NaN,
        Updated |-> P(Noon), Stars |-> N(2), Forks |-> NaN,
        Category |-> P(<<"x">>)],
       [url |-> 2, name |-> <<"b", "c">>, Docs |-> P("d"), Score |-> NaN,
        Updated |-> P(SecondsPerDay + LastHalfMinute), Stars |-> N(3), Forks |-> N(1),
        Category |-> P(<<"x", "y">>)],
       [url |-> 3, name |-> <<"c">>, Docs |-> P("d"), Score |-> NaN,
        Updated |-> NaN, Stars |-> NaN, Forks |-> N(0),
        Category |-> NaN] >>,
    << [url |-> 1, name |-> <<"a", "B">>, Docs |-> P("d"), Score |-> NaN,
        Updated |-> P(Noon), Stars |-> N(1), Forks |-> N(0),
        Category |-> P(<<"x">>)],
       [url |-> 2, name |-> <<"b", "c">>, Docs |-> P("d"), Score |-> NaN,
        Updated |-> P(SecondsPerDay + Noon), Stars |-> N(3), Forks |-> N(2),
        Category |-> P(<<"y">>)],
       [url |-> 3, name |-> <<"c">>, Docs |-> P("d"), Score |-> NaN,
        Updated |-> P(SecondsPerDay + Noon), Stars |-> N(1), Forks |-> NaN,
        Category |-> P(<<"x", "y">>)] >> }

\* lines 97-99: np.random.choice([0, 100], size=len(df.index))
create_vis_table(base, choice) ==
    [i \in DOMAIN base |-> [base[i] EXCEPT !.Score = N(choice[i])]]

Tables ==
    {create_vis_table(base, choice) :
        base \in BaseTables, choice \in [1..3 -> {0, 100}]}

----------------------------------------------------------------------------
(* What the user can enter.                                                *)

\* number_input(min_value=0.0, max_value=1.0, step=0.1), in tenths
WeightStops == {0, 5, 10}
\* positions tried on the Score slider, which spans min..max of the placeholder
ScoreStops == {0, 50, 100}
SearchTerms == {<<>>, <<"b">>}
ScalingMethods == {"min-max", "rank"}

\* A slider created without max_value=default_range[1]: it reaches past the maximum
SliderStops_PastMax(col) ==
    LET r == default_range(df, col)
    IN  IF IsDatetimeKind(col) THEN r[1]..(r[2] + 1)
        ELSE {Num(k) : k \in r[1].n..(r[2].n + 1)}

\* The values a slider can take: min_value..max_value in steps of 1 (or one day)
SliderStops(col) ==
    LET r == default_range(df, col)
    IN  IF IsDatetimeKind(col) THEN r[1]..r[2]
        ELSE IF col = "Score"
             THEN {Num(k) : k \in {x \in ScoreStops : r[1].n <= x /\ x <= r[2].n}}
             ELSE {Num(k) : k \in r[1].n..r[2].n}

SliderLe(col, a, b) == IF IsDatetimeKind(col) THEN a <= b ELSE Le(a, b)

----------------------------------------------------------------------------
(* The state machine.                                                      *)

Init ==
    /\ df \in Tables
    /\ reset_filters = FALSE
    /\ slider_state = [c \in SliderCols |-> <<>>]
    /\ multiselect_state = [c \in MultiselectCols |-> <<>>]
    /\ exclude_nan_state = [c \in ToggleCols |-> FALSE]
    /\ scoring_state = [c \in ScoreInputCols |-> 5]
    /\ scoring_method = "min-max"
    /\ search_box = <<>>
    /\ reset_button = FALSE
    /\ pc = "run"
    /\ reset_mode = FALSE
    /\ df_filtered = <<>>
    /\ scored = <<>>
    /\ removed_by = <<>>
    /\ events = 0
    /\ resets = 0
    /\ reset_passes = 0

\* main(), lines 629-680, given reset_mode, the table scored at line 624 (scored_),
\* the table shown after the sort and the search filter, and the outcome of the
\* closing reset(reset_button).
Render(mode, scored_, shown, last) ==
    /\ reset_mode' = mode
    /\ df' = IF scored_.is_source THEN scored_.rows ELSE df
    /\ df_filtered' = shown.rows
    /\ scored' = scored_.rows
    /\ removed_by' = shown.removed
    /\ slider_state' =
        [c \in SliderCols |-> <<slider(df, c, mode, slider_state[c])>>]
    /\ multiselect_state' =
        [c \in MultiselectCols |->
            <<multiselect(unique_items(df, c), mode, multiselect_state[c])>>]
    /\ exclude_nan_state' =
        [c \in ToggleCols |->
            IF missing_count(Column(df, c)) > 0
            THEN header_and_missing_value_toggle(Column(df, c), mode, exclude_nan_state[c])
            ELSE exclude_nan_state[c]]
    /\ scoring_state' = add_scoring(scoring_state)
    /\ reset_passes' = IF mode THEN reset_passes + 1 ELSE reset_passes
    /\ reset_filters' = last.flag
    /\ resets' = IF reset_button THEN resets + 1 ELSE resets
    /\ pc' = IF last.rerun THEN "rerun" ELSE "idle"
    /\ reset_button' = FALSE

\* main(), lines 625-680, given the outcome of the opening reset() and the table
\* scored at line 624
SortAndRender(first, scored_, in_range) ==
    \E sorted \in sort_values(in_range.rows) :
        Render(first.reset_mode, scored_,
               SearchFilter([in_range EXCEPT !.rows = sorted]),
               reset(reset_button, first.flag))

\* main(), lines 570-680, given the outcome of the opening reset() and the table
\* the column filters left, with its Score
FilterAndRender(first, scored_) ==
    SortAndRender(first, scored_, ScoreFilter(scored_, first.reset_mode))

\* One run of main(df): lines 569-680.
RunMain(first) ==
    FilterAndRender(first, WithScore(ColumnFilters(first.reset_mode)))

Main ==
    /\ pc \in {"run", "rerun"}
    /\ RunMain(reset(FALSE, reset_filters))
    /\ UNCHANGED <<scoring_method, search_box, events>>

\* A user interaction starts a new script run, with fresh locals.
Interact ==
    /\ pc = "idle"
    /\ events < MaxEvents
    /\ events' = events + 1
    /\ pc' = "run"
    /\ reset_mode' = FALSE
    /\ df_filtered' = <<>>
    /\ scored' = <<>>
    /\ removed_by' = <<>>
    /\ UNCHANGED <<df, reset_filters, resets, reset_passes>>

\* The user drags a slider: line 312-318, within min_value..max_value.
MoveSlider ==
    /\ Interact
    /\ \E c \in SliderCols : \E lo, hi \in SliderStops(c) :
        /\ SliderLe(c, lo, hi)
        /\ slider_state[c] # << <<lo, hi>> >>
        /\ slider_state' = [slider_state EXCEPT ![c] = << <<lo, hi>> >>]
    /\ UNCHANGED <<multiselect_state, exclude_nan_state, scoring_state, scoring_method,
                   search_box, reset_button>>

\* The user changes a multiselect: lines 339-344, among options=unique_values.
PickValues ==
    /\ Interact
    /\ \E c \in MultiselectCols : \E chosen \in SUBSET unique_items(df, c) :
        /\ multiselect_state[c] # <<chosen>>
        /\ multiselect_state' = [multiselect_state EXCEPT ![c] = <<chosen>>]
    /\ UNCHANGED <<slider_state, exclude_nan_state, scoring_state, scoring_method,
                   search_box, reset_button>>

\* The user flips an exclude-missing toggle: lines 386-392; the toggle exists
\* only for a column that has missing values.
ToggleMissing ==
    /\ Interact
    /\ \E c \in ToggleCols :
        /\ missing_count(Column(df, c)) > 0
        /\ exclude_nan_state' = [exclude_nan_state EXCEPT ![c] = ~@]
    /\ UNCHANGED <<slider_state, multiselect_state, scoring_state, scoring_method,
                   search_box, reset_button>>

\* The user sets a weight: add_scoring(), lines 229-240.
SetWeight ==
    /\ Interact
    /\ \E c \in ScoreInputCols : \E w \in WeightStops :
        /\ scoring_state[c] # w
        /\ scoring_state' = [scoring_state EXCEPT ![c] = w]
    /\ UNCHANGED <<slider_state, multiselect_state, exclude_nan_state, scoring_method,
                   search_box, reset_button>>

\* The user picks the scaling method: add_scoring(), lines 221-228.
SetMethod ==
    /\ Interact
    /\ \E m \in ScalingMethods :
        /\ scoring_method # m
        /\ scoring_method' = m
    /\ UNCHANGED <<slider_state, multiselect_state, exclude_nan_state, scoring_state,
                   search_box, reset_button>>

\* The user types in the search box: line 635.
TypeSearch ==
    /\ Interact
    /\ \E t \in SearchTerms :
        /\ search_box # t
        /\ search_box' = t
    /\ UNCHANGED <<slider_state, multiselect_state, exclude_nan_state, scoring_state,
                   scoring_method, reset_button>>

\* The user presses "Reset All Filters": line 679.
PressReset ==
    /\ Interact
    /\ reset_button' = TRUE
    /\ UNCHANGED <<slider_state, multiselect_state, exclude_nan_state, scoring_state,
                   scoring_method, search_box>>

Next ==
    \/ Main
    \/ MoveSlider
    \/ PickValues
    \/ ToggleMissing
    \/ SetWeight
    \/ SetMethod
    \/ TypeSearch
    \/ PressReset

Spec == Init /\ [][Next]_vars

----------------------------------------------------------------------------
(* Properties.                                                             *)

\* A run of main() has taken place and its locals are on record.
Ran == pc \in {"idle", "rerun"}
\* A step of Main: the only action enabled when a run is due.
RunDue == pc \in {"run", "rerun"}
\* The table has just been loaded and no run has used it yet.  A user
\* interaction leaves df alone and so does a run (C14), so what holds of df in
\* these states holds of the table of every state.
Loaded == pc = "run" /\ events = 0

Urls(table) == [i \in DOMAIN table |-> table[i].url]
Values(col) == {df[i][col][1] : i \in {j \in DOMAIN df : ~IsNa(df[j][col])}}
Items(col) == UNION {Range(v) : v \in Values(col)}

\* The full range of a column of df, written out from its values.
IsFullRange(col, r) ==
    IF col = "Updated"
    THEN /\ \E v \in Values(col) : r[1] = v \div (24 * 3600)
         /\ \E v \in Values(col) : r[2] = v \div (24 * 3600)
         /\ \A v \in Values(col) : r[1] <= v \div (24 * 3600) /\ v \div (24 * 3600) <= r[2]
    ELSE /\ r[1] \in Values(col) /\ r[2] \in Values(col)
         /\ \A v \in Values(col) : r[1].n * v.d <= v.n * r[1].d /\ v.n * r[2].d <= r[2].n * v.d

\* Every filter widget holds its data-derived default.
FiltersAtDefault ==
    /\ \A c \in SliderCols :
        slider_state[c] # <<>> /\ IsFullRange(c, slider_state[c][1])
    /\ \A c \in MultiselectCols : multiselect_state[c] = <<Items(c)>>
    /\ \A c \in ToggleCols : ~exclude_nan_state[c]

\* C1: the reset flag goes up only in a run in which the reset button reads
\* pressed (a reset action); while it is up the only thing that can happen is the
\* next run, which runs in reset mode and takes the flag down; a run that finds
\* the flag down does not run in reset mode; so the number of reset actions is
\* the number of reset-mode runs, plus one while the flag is up.
C1_ResetFlagLifecycle ==
    /\ [](reset_filters => pc = "rerun")
    /\ [](resets = reset_passes + (IF reset_filters THEN 1 ELSE 0))
    /\ [][ /\ (reset_filters' # reset_filters) => RunDue
           /\ (~reset_filters /\ reset_filters') =>
                (reset_button /\ resets' = resets + 1)
           /\ reset_filters =>
                (reset_mode' /\ ~reset_filters' /\ reset_passes' = reset_passes + 1)
           /\ ~reset_filters =>
                (~reset_mode' /\ reset_passes' = reset_passes) ]_vars

\* C1 witness: two reset actions, each followed by its reset-mode run.
C1_Witness ==
    pc = "idle" /\ reset_mode /\ ~reset_filters /\ resets = 2 /\ reset_passes = 2

\* C2 (as claimed): the run that follows a reset action uses the full range of
\* every column, the full selection and exclude-missing off, and its filtered
\* table holds the rows of the unfiltered table.  Read in the claim's favour:
\* the search box is empty and the placeholder Score spans 0..100.
C2_ResetRestoresUnfilteredTable ==
    (/\ Ran /\ reset_mode /\ search_box = <<>>
     /\ Values("Score") = {Num(0), Num(100)})
        => (/\ FiltersAtDefault
            /\ Range(Urls(df_filtered)) = Range(Urls(df)))

IsWithinRange(col, r) ==
    IF col = "Updated"
    THEN /\ r[1] <= r[2]
         /\ \E v \in Values(col) : v \div (24 * 3600) <= r[1]
         /\ \E v \in Values(col) : r[2] <= v \div (24 * 3600)
    ELSE /\ r[1].n * r[2].d <= r[2].n * r[1].d
         /\ \E v \in Values(col) : v.n * r[1].d <= r[1].n * v.d
         /\ \E v \in Values(col) : r[2].n * v.d <= v.n * r[2].d

\* C4: the bounds stored for (and used by) every slider lie within the full
\* range of its unfiltered column and every stored selection is a subset of the
\* values observed in the column; the first run, which finds nothing stored,
\* uses exactly the full range and the full set.
C4_FilterSpecInvariant ==
    /\ \A c \in SliderCols :
        slider_state[c] # <<>> => IsWithinRange(c, slider_state[c][1])
    /\ \A c \in MultiselectCols :
        multiselect_state[c] # <<>> => multiselect_state[c][1] \subseteq Items(c)
    /\ (Ran /\ events = 0) =>
        (/\ \A c \in SliderCols :
                slider_state[c] # <<>> /\ IsFullRange(c, slider_state[c][1])
         /\ \A c \in MultiselectCols : multiselect_state[c] = <<Items(c)>>)

\* C4 witness: a run has used a narrowed slider and a reduced selection.
C4_Witness ==
    /\ pc = "idle"
    /\ \E c \in SliderCols : ~IsFullRange(c, slider_state[c][1])
    /\ \E c \in MultiselectCols : multiselect_state[c][1] # Items(c)

\* Parameters tried on the predicates.
NumberParams == {Num(0), Num(1), Num(2), Num(3), Num(100), Frac(3, 2)}
DateParams == 0..2
LabelParams == SUBSET {"x", "y", "z"}
ScalarParams == SUBSET {"d", "e"}

\* C5: each range / membership predicate is true at every row whose value is
\* missing, whatever the parameter; in a run a row with a missing value in
\* column c is removed on account of c only by c's exclude-missing step, which
\* runs only when the toggle of c is on, and then no row with a missing value
\* in c is left in the result.
C5_MissingPassesByDefault ==
    /\ Loaded =>
        /\ \A c \in {"Stars", "Forks", "Score"} : \A lo, hi \in NumberParams :
            \A i \in DOMAIN df :
                IsNa(df[i][c]) => numeric_range_filter(Column(df, c), lo, hi)[i]
        /\ \A lo, hi \in DateParams : \A i \in DOMAIN df :
                IsNa(df[i]["Updated"])
                    => date_range_filter(Column(df, "Updated"), lo, hi)[i]
        /\ \A chosen \in LabelParams : \A i \in DOMAIN df :
                IsNa(df[i]["Category"]) => list_filter(Column(df, "Category"), chosen)[i]
        /\ \A chosen \in ScalarParams : \A i \in DOMAIN df :
                IsNa(df[i]["Docs"]) => categorical_filter(Column(df, "Docs"), chosen)[i]
    /\ Ran =>
        \A c \in ToggleCols :
            /\ \A i \in DOMAIN df :
                /\ removed_by[df[i].url] = <<"filter", c>> => ~IsNa(df[i][c])
                /\ removed_by[df[i].url] = <<"nan", c>> =>
                        (exclude_nan_state[c] /\ IsNa(df[i][c]))
            /\ exclude_nan_state[c] =>
                \A i \in DOMAIN df_filtered : ~IsNa(df_filtered[i][c])

\* C5 witness: a run with a toggle on removed a row for its missing value while
\* a row with a missing value in a filtered column was kept.
C5_Witness ==
    /\ pc = "idle"
    /\ \E c \in ToggleCols : \E i \in DOMAIN df :
        exclude_nan_state[c] /\ removed_by[df[i].url] = <<"nan", c>>
    /\ \E c \in ToggleCols : \E i \in DOMAIN df_filtered :
        ~exclude_nan_state[c] /\ IsNa(df_filtered[i][c])

\* C6 (as claimed): a run in which every filter holds its default and every
\* exclude-missing toggle is off returns the rows of the input, none dropped, in
\* the input's order.  Read in the claim's favour: the search box is empty, the
\* placeholder Score spans 0..100, and the order is that of the table the filters
\* leave (line 627), before the display sort of line 630.
C6_DefaultPassRoundTrip ==
    (/\ Ran /\ FiltersAtDefault /\ search_box = <<>>
     /\ Values("Score") = {Num(0), Num(100)})
        => (/\ Urls(scored) = Urls(df)
            /\ Len(df_filtered) = Len(df))

\* v lies in [lo, hi], written out on numerators and denominators
Inside(v, lo, hi) == lo.n * v.d <= v.n * lo.d /\ v.n * hi.d <= hi.n * v.d

\* C7: numeric_range_filter(col, lo, hi) is true at a row exactly when the value
\* is missing or lo <= value <= hi; with (min(col), max(col)) it is true at every
\* row; in a run, the rows a numeric column's filter removes are the present
\* values outside the slider's range and every row left is missing or inside.
C7_NumericRangeFilter ==
    /\ Loaded =>
        /\ \A c \in {"Stars", "Forks", "Score"} : \A lo, hi \in NumberParams :
            \A i \in DOMAIN df :
                numeric_range_filter(Column(df, c), lo, hi)[i]
                    <=> (IsNa(df[i][c]) \/ Inside(df[i][c][1], lo, hi))
        /\ \A c \in {"Stars", "Forks", "Score"} : \A lo, hi \in Values(c) :
            (\A v \in Values(c) : Inside(v, lo, hi)) =>
                \A i \in DOMAIN df : numeric_range_filter(Column(df, c), lo, hi)[i]
    /\ Ran =>
        \A c \in {"Stars", "Forks"} :
            /\ \A i \in DOMAIN df :
                removed_by[df[i].url] = <<"filter", c>> =>
                    (~IsNa(df[i][c])
                     /\ ~Inside(df[i][c][1], slider_state[c][1][1], slider_state[c][1][2]))
            /\ \A i \in DOMAIN df_filtered :
                \/ IsNa(df_filtered[i][c])
                \/ Inside(df_filtered[i][c][1], slider_state[c][1][1], slider_state[c][1][2])

\* C7 witness: a numeric filter removed a row and kept a row with a missing value.
C7_Witness ==
    /\ pc = "idle"
    /\ \E c \in {"Stars", "Forks"} :
        /\ \E i \in DOMAIN df : removed_by[df[i].url] = <<"filter", c>>
        /\ \E i \in DOMAIN df_filtered : IsNa(df_filtered[i][c])

\* The sum of the weights, in tenths.
WeightSum == scoring_state["Stars"] + scoring_state["Forks"]

\* The integer values of column col in the rows of `scored`, the table the
\* column filters of the last run left.
ScoredValues(col) ==
    {scored[i][col][1].n : i \in {j \in DOMAIN scored : ~IsNa(scored[j][col])}}
SetMin(S) == CHOOSE m \in S : \A x \in S : m <= x
SetMax(S) == CHOOSE m \in S : \A x \in S : x <= m

\* Twice the average rank of value x among the values of col in `scored`.
TwiceRank(col, x) ==
    2 * Cardinality({j \in DOMAIN scored : ~IsNa(scored[j][col]) /\ scored[j][col][1].n < x})
    + Cardinality({j \in DOMAIN scored : ~IsNa(scored[j][col]) /\ scored[j][col][1].n = x})
    + 1

\* The normalised value of row i of `scored` in column col as <<numerator,
\* denominator>>, <<0, 1>> where the row contributes nothing to the sum.
Normalised(col, i) ==
    IF IsNa(scored[i][col]) THEN <<0, 1>>
    ELSE LET x == scored[i][col][1].n
             S == ScoredValues(col)
         IN  IF scoring_method = "min-max"
             THEN (IF SetMax(S) = SetMin(S) THEN <<0, 1>>
                   ELSE <<x - SetMin(S), SetMax(S) - SetMin(S)>>)
             ELSE <<TwiceRank(col, x), SetMax({TwiceRank(col, y) : y \in S})>>

\* C8: in every run the Score is computed on the rows the column filters and
\* exclude-missing steps left, before the score-range filter: those rows are
\* exactly the rows no column step removed, each has
\* Score = 100 * sum_c(weight_c * normalised_c) / sum_c(weight_c) with
\* normalised_c taken over those rows (a missing value adds nothing), and the
\* rows shown carry that Score.  Stated for weights that are not all zero.
C8_ScoreOverFilteredRows ==
    (Ran /\ WeightSum > 0) =>
        /\ Range(Urls(scored)) =
            {df[i].url : i \in {j \in DOMAIN df :
                removed_by[df[j].url] \in {Kept, <<"filter", "Score">>, <<"search">>}}}
        /\ \A i \in DOMAIN scored :
            LET a == Normalised("Stars", i)
                b == Normalised("Forks", i)
                score == scored[i].Score[1]
            IN  score.n * (WeightSum * a[2] * b[2]) =
                    score.d * 100 * (  scoring_state["Stars"] * a[1] * b[2]
                                     + scoring_state["Forks"] * b[1] * a[2])
        /\ \A i \in DOMAIN df_filtered : \E j \in DOMAIN scored : df_filtered[i] = scored[j]

\* C8 witness: the filters removed a row, two rows were scored and one of them
\* got a Score above 0.
C8_Witness ==
    /\ pc = "idle" /\ WeightSum > 0
    /\ Len(scored) = 2 /\ Len(df) = 3
    /\ \E i \in DOMAIN scored : scored[i].Score[1].n > 0

C10_ZeroWeightsGiveNoScore ==
    (Ran /\ WeightSum = 0) =>
        \A i \in DOMAIN scored : scored[i].Score # P(Num(0))

\* The score input column col has the same value in every row of `scored` that
\* has one: max == min over the filtered subset.
IsConstantInScored(col) ==
    /\ ScoredValues(col) # {}
    /\ SetMax(ScoredValues(col)) = SetMin(ScoredValues(col))

\* C11 (as claimed): a run that scores under min-max a filtered subset in which
\* a weighted score input column is constant reports the degenerate
\* normalisation and hands no Score to the rows.  Read in the claim's favour:
\* the subset is not one the date filter cut short.
C11_DegenerateMinMaxReported ==
    (/\ Ran /\ scoring_method = "min-max" /\ scored # <<>>
     /\ \A u \in DOMAIN removed_by : removed_by[u] # <<"filter", "Updated">>
     /\ \E c \in ScoreInputCols : scoring_state[c] > 0 /\ IsConstantInScored(c))
        => \A i \in DOMAIN scored : IsNa(scored[i].Score)

\* The data columns of the table create_vis_table() returns.
TableColumns == {"Docs", "Score"} \cup Range(COLUMN_NAME_MAPPING)

RankInputs == [1..3 -> {NaN, N(10), N(20), N(30)}]

\* Twice the ascending average rank of the integer x among the present values of
\* col: the ranks of its tied group are less + 1 .. less + same, of average
\* less + (same + 1) / 2.
TwiceRankIn(col, x) ==
    2 * Cardinality({j \in DOMAIN col : ~IsNa(col[j]) /\ col[j][1].n < x})
    + Cardinality({j \in DOMAIN col : ~IsNa(col[j]) /\ col[j][1].n = x})
    + 1

\* out is col rank-normalised: a missing value stays missing, a present value
\* becomes its average rank over the largest average rank of the column.
IsRankNormalised(col, out) ==
    /\ DOMAIN out = DOMAIN col
    /\ \A i \in DOMAIN col :
        IF IsNa(col[i]) THEN IsNa(out[i])
        ELSE /\ ~IsNa(out[i])
             /\ \E j \in DOMAIN col :
                    /\ ~IsNa(col[j])
                    /\ \A k \in DOMAIN col : ~IsNa(col[k]) =>
                            TwiceRankIn(col, col[k][1].n) <= TwiceRankIn(col, col[j][1].n)
                    /\ out[i][1].n * TwiceRankIn(col, col[j][1].n)
                            = out[i][1].d * TwiceRankIn(col, col[i][1].n)
             /\ 0 < out[i][1].n /\ out[i][1].n <= out[i][1].d

\* C13: normalise(frame, "rank") maps, column by column, every present value to
\* its ascending tie-averaged rank over the column's largest rank and leaves a
\* missing value missing, so every output lies in (0, 1]; a column's result does
\* not depend on the other columns of the frame; [10, 10, 30] gives
\* [1/2, 1/2, 1]; and in a run under rank scaling the frame scored at line 624
\* is normalised that way.
C13_RankNormalisation ==
    /\ Loaded =>
        /\ \A col \in RankInputs :
            /\ IsRankNormalised(col, normalise([x |-> col], "rank").x)
            /\ \A c \in {"Stars", "Forks", "Score"} :
                normalise([x |-> col, y |-> Column(df, c)], "rank").x
                    = normalise([x |-> col], "rank").x
        /\ normalise([x |-> <<N(10), N(10), N(30)>>], "rank").x
                = <<P(Frac(1, 2)), P(Frac(1, 2)), P(Num(1))>>
    /\ (Ran /\ scoring_method = "rank") =>
        \A c \in ScoreInputCols :
            IsRankNormalised(Column(scored, c),
                             normalise(Frame(scored, ScoreInputCols), scoring_method)[c])

\* C13 witness: a run under rank scaling scored a column with two tied values, a
\* larger value above them, next to a column with a missing value.
C13_Witness ==
    /\ pc = "idle" /\ scoring_method = "rank"
    /\ \E c \in ScoreInputCols : \E i, j, k \in DOMAIN scored :
        /\ i # j /\ ~IsNa(scored[i][c]) /\ scored[i][c] = scored[j][c]
        /\ ~IsNa(scored[k][c]) /\ scored[k][c][1].n > scored[i][c][1].n
    /\ \E c \in ScoreInputCols : \E i \in DOMAIN scored : IsNa(scored[i][c])

\* C14: no step changes the table handed to main(): a run leaves its rows, its
\* column values and its placeholder Score as they were, whatever the filters
\* and weights; after a run the table is still one create_vis_table() built,
\* and every row the run scored is a row of the table with the computed Score
\* in place of the placeholder, in a table of its own.
C14_SourceTableUnchanged ==
    /\ [][df' = df]_vars
    /\ [](df \in Tables)
    /\ [](Ran =>
            \A i \in DOMAIN scored : \E j \in DOMAIN df :
                scored[i] = [df[j] EXCEPT !.Score = scored[i].Score])

\* C14 witness: after filters and weights were changed, a run scored a row with
\* a Score other than the placeholder its row of the source table still holds.
C14_Witness ==
    /\ pc = "idle" /\ events = MaxEvents
    /\ \E c \in ScoreInputCols : scoring_state[c] # 5
    /\ \E i \in DOMAIN df : removed_by[df[i].url] # Kept
    /\ \E i \in DOMAIN scored : \E j \in DOMAIN df :
        /\ scored[i].url = df[j].url
        /\ scored[i].Score # df[j].Score
        /\ df[j].Score \in {N(0), N(100)}

\* C15 (as claimed): date_range_filter with the default range of the slider,
\* (the date of min(col), the date of max(col)), is true at every row of the
\* datetime column, whatever the time of day of its latest timestamp, and a run
\* whose date slider holds that range loses no row to the date filter.
C15_DefaultDateRangeKeepsAll ==
    /\ Loaded =>
        \A i \in DOMAIN df :
            date_range_filter(Column(df, "Updated"),
                              default_range(df, "Updated")[1],
                              default_range(df, "Updated")[2])[i]
    /\ (Ran /\ IsFullRange("Updated", slider_state["Updated"][1])) =>
        \A i \in DOMAIN df : removed_by[df[i].url] # <<"filter", "Updated">>

====
